---- MODULE Spec2Model ----
(***************************************************************************)
(* A model of src/src/main.c, the 15-puzzle for the Game Boy Color.        *)
(*                                                                         *)
(* The program is one thread.  Its state is the globals of main.c (board,  *)
(* empty_row, empty_col, cursor_row, cursor_col, move_count, game_won,     *)
(* input_cooldown, seed_counter), the two layers of the background map     *)
(* (vram[0] is the tile layer, vram[1] the attribute layer, selected in    *)
(* the code by VBK_REG), the locals of the loops that are cut into steps   *)
(* (i, last_dir, dir of shuffle_board, i of win_animation), and pc, the    *)
(* position of main().  One step of the model is one iteration of one of   *)
(* the program's loops.                                                    *)
(*                                                                         *)
(* The remaining variables observe the run and are read by no action's     *)
(* guard or effect: rand_seed (the argument of the last initrand call),    *)
(* idle_ticks, moves_made, calls, ret, quiet, acc.                         *)
(***************************************************************************)
EXTENDS Integers, Sequences, FiniteSets, TLC

VARIABLES pc, board, empty_row, empty_col, cursor_row, cursor_col,
          move_count, game_won, input_cooldown, seed_counter, vram,
          i, last_dir, dir, win_i,
          rand_seed, idle_ticks, moves_made, calls, ret, quiet, acc

vars == <<pc, board, empty_row, empty_col, cursor_row, cursor_col,
          move_count, game_won, input_cooldown, seed_counter, vram,
          i, last_dir, dir, win_i,
          rand_seed, idle_ticks, moves_made, calls, ret, quiet, acc>>

(***************************************************************************)
(* Program constants (main.c, lines 22-58).                                *)
(***************************************************************************)
GRID_SIZE == 4
TOTAL_TILES == 16
EMPTY_TILE == 0
CELL_W == 3
CELL_H == 3
GRID_X == 4
GRID_Y == 3
T_BLANK == 0
T_BORDER_TL == 1
T_BORDER_T == 2
T_BORDER_TR == 3
T_BORDER_L == 4
T_BORDER_R == 5
T_BORDER_BL == 6
T_BORDER_B == 7
T_BORDER_BR == 8
T_NUM_START == 10
T_NUM10_L == 19
T_EMPTY_CELL == 31
T_TILE_TL == 32
T_TILE_T == 33
T_TILE_TR == 34
T_TILE_L == 35
T_TILE_R == 36
T_TILE_BL == 37
T_TILE_B == 38
T_TILE_BR == 39
INPUT_DELAY == 6

\* The visible background map: 20 x 18 tiles (the loops of title_screen and main).
SCREEN_W == 20
SCREEN_H == 18
\* The iterations of shuffle_board's loop.
SHUFFLE_ITERS == 200
\* last_dir before the first accepted move.
NO_DIR == 255
\* The beats of win_animation.
WIN_BEATS == 6
\* The widths of uint8_t and uint16_t.
UINT8_MOD == 256
UINT16_MOD == 65536
\* '0' as a char.
CHAR_0 == 48
\* Palette numbers: the cursor and win band, the text band, the border band.
PAL_GOLD == 6
PAL_TEXT == 7
PAL_UI == 0

(***************************************************************************)
(* Bounds of the model.                                                    *)
(***************************************************************************)
\* The idle waits (title screen, wait for restart) last at most MaxWait ticks.
MaxWait == 2
\* The draws of the last ShuffleFree iterations of a shuffle are arbitrary;
\* the earlier iterations draw only directions the code skips.
ShuffleFree == 3
\* Successful moves explored per session.
MaxMoves == 2
\* Buttons held at once in a sample of the joypad.
MaxHeld == 2

Buttons == {"UP", "DOWN", "LEFT", "RIGHT", "A", "SELECT", "START"}
Rows == 0 .. (GRID_SIZE - 1)
Cols == 0 .. (GRID_SIZE - 1)

(***************************************************************************)
(* The display driver.  A call set_bkg_tile_xy(x, y, t) made while VBK_REG *)
(* is bank is the write <<bank, x, y, t>>; a drawing function is the       *)
(* sequence of the writes it makes, in the order of the code.              *)
(***************************************************************************)
set_bkg_tile_xy(bank, x, y, t) == <<bank, x, y, t>>

\* The background map v after the one write w.
write_tile(v, w) == [v EXCEPT ![w[1]][w[3]][w[2]] = w[4]]

\* The background map v after the writes ws[lo], ..., ws[hi], made in that
\* order.  The range is halved, and the test of left (always true) makes TLC
\* evaluate the first half before it starts the second, so that the evaluation
\* stays shallow.
RECURSIVE paint_range(_, _, _, _)
paint_range(v, ws, lo, hi) ==
    IF lo > hi THEN v
    ELSE IF lo = hi THEN write_tile(v, ws[lo])
    ELSE LET mid == (lo + hi) \div 2
             left == paint_range(v, ws, lo, mid)
         IN IF DOMAIN left # {} THEN paint_range(left, ws, mid + 1, hi) ELSE v

\* The background map v after the writes ws.
Paint(v, ws) == paint_range(v, ws, 1, Len(ws))

\* The writes of two nested loops, rows outside and columns inside, that set
\* the w x h rectangle at (x0, y0) to t.
rect_writes(bank, x0, y0, w, h, t) ==
    [k \in 1 .. (w * h) |->
        set_bkg_tile_xy(bank, x0 + ((k - 1) % w), y0 + ((k - 1) \div w), t)]

(***************************************************************************)
(* put_char, put_number (lines 139-171).                                   *)
(***************************************************************************)
put_char(x, y, c) ==
    LET digit == c - CHAR_0
        tile == IF c >= CHAR_0 /\ c <= CHAR_0 + 9
                THEN (IF digit = 0 THEN T_NUM10_L + 1
                      ELSE T_NUM_START + digit - 1)
                ELSE T_BLANK
    IN set_bkg_tile_xy(0, x, y, tile)

put_number(x, y, num) ==
    LET hundreds == (num \div 100) % UINT8_MOD
        tens == (num \div 10) % 10
        ones == num % 10
    IN IF hundreds > 0
       THEN << put_char(x, y, (CHAR_0 + hundreds) % UINT8_MOD),
               put_char(x + 1, y, CHAR_0 + tens),
               put_char(x + 2, y, CHAR_0 + ones) >>
       ELSE IF tens > 0
       THEN << set_bkg_tile_xy(0, x, y, T_BLANK),
               put_char(x + 1, y, CHAR_0 + tens),
               put_char(x + 2, y, CHAR_0 + ones) >>
       ELSE << set_bkg_tile_xy(0, x, y, T_BLANK),
               set_bkg_tile_xy(0, x + 1, y, T_BLANK),
               put_char(x + 2, y, CHAR_0 + ones) >>

(***************************************************************************)
(* Drawing functions (lines 176-321): the writes each makes.               *)
(***************************************************************************)
\* A get_tile_palette with one band for 9..15.
get_tile_palette_coarse(tile_num) ==
    IF tile_num = 0 THEN 5
    ELSE IF tile_num <= 4 THEN 1
    ELSE IF tile_num <= 8 THEN 2
    ELSE 3

get_tile_palette(tile_num) ==
    IF tile_num = 0 THEN 5
    ELSE IF tile_num <= 4 THEN 1
    ELSE IF tile_num <= 8 THEN 2
    ELSE IF tile_num <= 12 THEN 3
    ELSE 4

draw_cell(b, gx, gy) ==
    LET tile_num == b[gy][gx]
        sx == GRID_X + gx * CELL_W
        sy == GRID_Y + gy * CELL_H
        pal == get_tile_palette(tile_num)
        attrs == rect_writes(1, sx, sy, CELL_W, CELL_H, pal)
        frame == << set_bkg_tile_xy(0, sx, sy, T_TILE_TL),
                    set_bkg_tile_xy(0, sx + 1, sy, T_TILE_T),
                    set_bkg_tile_xy(0, sx + 2, sy, T_TILE_TR),
                    set_bkg_tile_xy(0, sx, sy + 1, T_TILE_L),
                    set_bkg_tile_xy(0, sx + 2, sy + 1, T_TILE_R),
                    set_bkg_tile_xy(0, sx, sy + 2, T_TILE_BL),
                    set_bkg_tile_xy(0, sx + 1, sy + 2, T_TILE_B),
                    set_bkg_tile_xy(0, sx + 2, sy + 2, T_TILE_BR) >>
        pair_base == T_NUM10_L + (tile_num - 10) * 2
    IN IF tile_num = 0
       THEN attrs \o rect_writes(0, sx, sy, CELL_W, CELL_H, T_EMPTY_CELL)
       ELSE IF tile_num <= 9
       THEN attrs \o frame
            \o << set_bkg_tile_xy(0, sx + 1, sy + 1, T_NUM_START + tile_num - 1) >>
       ELSE attrs \o frame
            \o << set_bkg_tile_xy(0, sx, sy + 1, T_TILE_L),
                  set_bkg_tile_xy(0, sx + 1, sy + 1, pair_base),
                  set_bkg_tile_xy(0, sx + 2, sy + 1, pair_base + 1) >>

\* draw_board: draw_cell over gy = 0..3 (outer), gx = 0..3 (inner); k = gy*4 + gx.
RECURSIVE draw_board_from(_, _)
draw_board_from(b, k) ==
    IF k >= GRID_SIZE * GRID_SIZE THEN <<>>
    ELSE draw_cell(b, k % GRID_SIZE, k \div GRID_SIZE) \o draw_board_from(b, k + 1)

draw_board(b) == draw_board_from(b, 0)

draw_border ==
    LET x1 == GRID_X - 1
        y1 == GRID_Y - 1
        x2 == GRID_X + GRID_SIZE * CELL_W
        y2 == GRID_Y + GRID_SIZE * CELL_H
        nx == x2 - x1 + 1
        ny == y2 - y1 + 1
        \* the loops 253-260: for each i the two writes of the loop body
        pal_rows == [k \in 1 .. (2 * nx) |->
                        set_bkg_tile_xy(1, x1 + ((k - 1) \div 2),
                                        IF k % 2 = 1 THEN y1 ELSE y2, PAL_UI)]
        pal_cols == [k \in 1 .. (2 * ny) |->
                        set_bkg_tile_xy(1, IF k % 2 = 1 THEN x1 ELSE x2,
                                        y1 + ((k - 1) \div 2), PAL_UI)]
        corners == << set_bkg_tile_xy(0, x1, y1, T_BORDER_TL),
                      set_bkg_tile_xy(0, x2, y1, T_BORDER_TR),
                      set_bkg_tile_xy(0, x1, y2, T_BORDER_BL),
                      set_bkg_tile_xy(0, x2, y2, T_BORDER_BR) >>
        \* the loops 270-279 over the tiles between the corners
        edge_rows == [k \in 1 .. (2 * (nx - 2)) |->
                         set_bkg_tile_xy(0, x1 + 1 + ((k - 1) \div 2),
                                         IF k % 2 = 1 THEN y1 ELSE y2,
                                         IF k % 2 = 1 THEN T_BORDER_T ELSE T_BORDER_B)]
        edge_cols == [k \in 1 .. (2 * (ny - 2)) |->
                         set_bkg_tile_xy(0, IF k % 2 = 1 THEN x1 ELSE x2,
                                         y1 + 1 + ((k - 1) \div 2),
                                         IF k % 2 = 1 THEN T_BORDER_L ELSE T_BORDER_R)]
    IN pal_rows \o pal_cols \o corners \o edge_rows \o edge_cols

\* A draw_hud that draws one row above the HUD row.
draw_hud_above(mc) ==
    LET y == GRID_Y + GRID_SIZE * CELL_H + 1
    IN rect_writes(1, GRID_X, y, 8, 1, PAL_TEXT) \o put_number(GRID_X + 1, y, mc)

draw_hud(mc) ==
    LET y == GRID_Y + GRID_SIZE * CELL_H + 2
    IN rect_writes(1, GRID_X, y, 8, 1, PAL_TEXT) \o put_number(GRID_X + 1, y, mc)

\* A draw_cursor that paints the whole attribute block of the cell.
draw_cursor_block(b, gx, gy, show) ==
    rect_writes(1, GRID_X + gx * CELL_W, GRID_Y + gy * CELL_H, CELL_W, CELL_H,
                IF show # 0 THEN PAL_GOLD ELSE get_tile_palette(b[gy][gx]))

draw_cursor(b, gx, gy, show) ==
    LET sx == GRID_X + gx * CELL_W
        sy == GRID_Y + gy * CELL_H
        pal == IF show # 0 THEN PAL_GOLD ELSE get_tile_palette(b[gy][gx])
    IN << set_bkg_tile_xy(1, sx, sy, pal),
          set_bkg_tile_xy(1, sx + 2, sy, pal),
          set_bkg_tile_xy(1, sx, sy + 2, pal),
          set_bkg_tile_xy(1, sx + 2, sy + 2, pal) >>

(***************************************************************************)
(* Puzzle logic (lines 326-437).                                           *)
(***************************************************************************)
\* A check_win that scans the first three rows only.
check_win_top(b) ==
    IF \A r \in 0 .. (GRID_SIZE - 2) : \A c_idx \in Cols :
            b[r][c_idx] = r * GRID_SIZE + c_idx + 1
    THEN 1 ELSE 0

\* check_win: the row-major scan with its early returns; k = r*4 + c_idx.
RECURSIVE check_win_from(_, _, _)
check_win_from(b, k, expected) ==
    IF k >= GRID_SIZE * GRID_SIZE THEN 1
    ELSE LET r == k \div GRID_SIZE
             c_idx == k % GRID_SIZE
         IN IF r = GRID_SIZE - 1 /\ c_idx = GRID_SIZE - 1
            THEN (IF b[r][c_idx] # EMPTY_TILE THEN 0
                  ELSE check_win_from(b, k + 1, expected))
            ELSE (IF b[r][c_idx] # expected THEN 0
                  ELSE check_win_from(b, k + 1, (expected + 1) % UINT8_MOD))

check_win(b) == check_win_from(b, 0, 1)

\* A try_move that also accepts the four diagonal neighbours of the empty cell.
try_move_diag(g, from_r, from_c) ==
    LET dr == g.empty_row - from_r
        dc == g.empty_col - from_c
    IN IF dr \in {-1, 0, 1} /\ dc \in {-1, 0, 1} /\ <<dr, dc>> # <<0, 0>>
       THEN LET b1 == [g.board EXCEPT ![g.empty_row][g.empty_col] =
                                           g.board[from_r][from_c]]
                b2 == [b1 EXCEPT ![from_r][from_c] = EMPTY_TILE]
                mc == (g.move_count + 1) % UINT16_MOD
                v3 == Paint(g.vram, draw_cell(b2, g.empty_col, g.empty_row)
                                    \o draw_cell(b2, from_c, from_r)
                                    \o draw_hud(mc))
            IN [g |-> [g EXCEPT !.board = b2, !.empty_row = from_r,
                                !.empty_col = from_c, !.move_count = mc,
                                !.vram = v3],
                ret |-> 1]
       ELSE [g |-> g, ret |-> 0]

\* A try_move that leaves the moved tile in its source cell as well.
try_move_keep(g, from_r, from_c) ==
    LET dr == g.empty_row - from_r
        dc == g.empty_col - from_c
    IN IF (dr = 0 /\ (dc = 1 \/ dc = -1)) \/ (dc = 0 /\ (dr = 1 \/ dr = -1))
       THEN LET b1 == [g.board EXCEPT ![g.empty_row][g.empty_col] =
                                           g.board[from_r][from_c]]
                mc == (g.move_count + 1) % UINT16_MOD
                v3 == Paint(g.vram, draw_cell(b1, g.empty_col, g.empty_row)
                                    \o draw_cell(b1, from_c, from_r)
                                    \o draw_hud(mc))
            IN [g |-> [g EXCEPT !.board = b1, !.empty_row = from_r,
                                !.empty_col = from_c, !.move_count = mc,
                                !.vram = v3],
                ret |-> 1]
       ELSE [g |-> g, ret |-> 0]

\* A try_move that does not update the cached column of the empty cell.
try_move_stale(g, from_r, from_c) ==
    LET dr == g.empty_row - from_r
        dc == g.empty_col - from_c
    IN IF (dr = 0 /\ (dc = 1 \/ dc = -1)) \/ (dc = 0 /\ (dr = 1 \/ dr = -1))
       THEN LET b1 == [g.board EXCEPT ![g.empty_row][g.empty_col] =
                                           g.board[from_r][from_c]]
                b2 == [b1 EXCEPT ![from_r][from_c] = EMPTY_TILE]
                mc == (g.move_count + 1) % UINT16_MOD
                v3 == Paint(g.vram, draw_cell(b2, g.empty_col, g.empty_row)
                                    \o draw_cell(b2, from_c, from_r)
                                    \o draw_hud(mc))
            IN [g |-> [g EXCEPT !.board = b2, !.empty_row = from_r,
                                !.move_count = mc, !.vram = v3],
                ret |-> 1]
       ELSE [g |-> g, ret |-> 0]

\* try_move on the game state g (a record of the globals); the result is the
\* new state and the return value.
try_move(g, from_r, from_c) ==
    LET dr == g.empty_row - from_r
        dc == g.empty_col - from_c
    IN IF (dr = 0 /\ (dc = 1 \/ dc = -1)) \/ (dc = 0 /\ (dr = 1 \/ dr = -1))
       THEN LET b1 == [g.board EXCEPT ![g.empty_row][g.empty_col] =
                                           g.board[from_r][from_c]]
                b2 == [b1 EXCEPT ![from_r][from_c] = EMPTY_TILE]
                old_er == g.empty_row
                old_ec == g.empty_col
                mc == (g.move_count + 1) % UINT16_MOD
                v3 == Paint(g.vram, draw_cell(b2, old_ec, old_er)
                                    \o draw_cell(b2, from_c, from_r)
                                    \o draw_hud(mc))
            IN [g |-> [g EXCEPT !.board = b2, !.empty_row = from_r,
                                !.empty_col = from_c, !.move_count = mc,
                                !.vram = v3],
                ret |-> 1]
       ELSE [g |-> g, ret |-> 0]

\* init_board: the row-major scan with val++; the result is the board.
RECURSIVE init_board_from(_, _, _)
init_board_from(b, k, val) ==
    IF k >= GRID_SIZE * GRID_SIZE THEN b
    ELSE LET r == k \div GRID_SIZE
             c_idx == k % GRID_SIZE
         IN IF r = GRID_SIZE - 1 /\ c_idx = GRID_SIZE - 1
            THEN init_board_from([b EXCEPT ![r][c_idx] = EMPTY_TILE], k + 1, val)
            ELSE init_board_from([b EXCEPT ![r][c_idx] = val], k + 1, val + 1)

init_board(b) == init_board_from(b, 0, 1)

\* Bitwise exclusive or of two bytes.
RECURSIVE xor_bits(_, _, _)
xor_bits(a, b, n) ==
    IF n = 0 THEN 0
    ELSE (IF a % 2 = b % 2 THEN 0 ELSE 1) + 2 * xor_bits(a \div 2, b \div 2, n - 1)

xor8(a, b) == xor_bits(a, b, 8)

\* A shuffle switch whose case 0 takes the tile two rows above the empty cell.
shuffle_case_jump(s, d) ==
    LET er == s.empty_row
        ec == s.empty_col
    IN IF d = 0 /\ er > 1
       THEN [s EXCEPT !.board = [s.board EXCEPT ![er][ec] = s.board[er - 2][ec],
                                                ![er - 2][ec] = EMPTY_TILE],
                      !.empty_row = er - 2, !.last_dir = d]
       ELSE s

\* The switch of shuffle_board on the drawn direction; s holds board,
\* empty_row, empty_col and last_dir.
shuffle_case(s, d) ==
    LET er == s.empty_row
        ec == s.empty_col
    IN CASE d = 0 ->
              IF er > 0
              THEN [s EXCEPT !.board = [s.board EXCEPT ![er][ec] = s.board[er - 1][ec],
                                                       ![er - 1][ec] = EMPTY_TILE],
                             !.empty_row = er - 1, !.last_dir = d]
              ELSE s
         [] d = 1 ->
              IF er < GRID_SIZE - 1
              THEN [s EXCEPT !.board = [s.board EXCEPT ![er][ec] = s.board[er + 1][ec],
                                                       ![er + 1][ec] = EMPTY_TILE],
                             !.empty_row = er + 1, !.last_dir = d]
              ELSE s
         [] d = 2 ->
              IF ec > 0
              THEN [s EXCEPT !.board = [s.board EXCEPT ![er][ec] = s.board[er][ec - 1],
                                                       ![er][ec - 1] = EMPTY_TILE],
                             !.empty_col = ec - 1, !.last_dir = d]
              ELSE s
         [] d = 3 ->
              IF ec < GRID_SIZE - 1
              THEN [s EXCEPT !.board = [s.board EXCEPT ![er][ec] = s.board[er][ec + 1],
                                                       ![er][ec + 1] = EMPTY_TILE],
                             !.empty_col = ec + 1, !.last_dir = d]
              ELSE s
         [] OTHER -> s

\* A loop body without the test against the last accepted direction.
shuffle_iter_nocheck(s, d) == shuffle_case(s, d)

\* One iteration of shuffle_board's loop body for the draw d = rand() & 0x03.
shuffle_iter(s, d) ==
    IF xor8(d, s.last_dir) = 1 THEN s ELSE shuffle_case(s, d)

(***************************************************************************)
(* win_animation and title_screen (lines 440-537), the screen of main.     *)
(***************************************************************************)
\* One beat of win_animation: every cell's 3x3 attribute block gets the gold
\* band on even beats and the cell's own band on odd beats.
RECURSIVE win_beat_from(_, _, _)
win_beat_from(b, beat, k) ==
    IF k >= GRID_SIZE * GRID_SIZE THEN <<>>
    ELSE LET gy == k \div GRID_SIZE
             gx == k % GRID_SIZE
             sx == GRID_X + gx * CELL_W
             sy == GRID_Y + gy * CELL_H
             pal == IF beat % 2 = 1 THEN get_tile_palette(b[gy][gx]) ELSE PAL_GOLD
         IN rect_writes(1, sx, sy, CELL_W, CELL_H, pal) \o win_beat_from(b, beat, k + 1)

win_beat(b, beat) == win_beat_from(b, beat, 0)

\* The two layers with every visible tile set to t0 (layer 0) and t1 (layer 1):
\* the clearing loops of title_screen (473-485) and main (578-585).
blank_screen(t0, t1) ==
    [bank \in 0 .. 1 |->
        [y \in 0 .. (SCREEN_H - 1) |->
            [x \in 0 .. (SCREEN_W - 1) |-> IF bank = 0 THEN t0 ELSE t1]]]

\* What title_screen draws before it waits (lines 471-521).
title_picture ==
    Paint(blank_screen(T_BLANK, PAL_TEXT),
          << set_bkg_tile_xy(0, 7, 5, T_NUM_START),
             set_bkg_tile_xy(0, 9, 5, T_NUM_START + 4),
             set_bkg_tile_xy(0, 7, 7, T_TILE_TL),
             set_bkg_tile_xy(0, 8, 7, T_TILE_T),
             set_bkg_tile_xy(0, 9, 7, T_TILE_T),
             set_bkg_tile_xy(0, 10, 7, T_TILE_TR),
             set_bkg_tile_xy(0, 7, 8, T_TILE_L),
             set_bkg_tile_xy(0, 8, 8, T_NUM_START + 0),
             set_bkg_tile_xy(0, 9, 8, T_NUM_START + 1),
             set_bkg_tile_xy(0, 10, 8, T_TILE_R),
             set_bkg_tile_xy(0, 7, 9, T_TILE_L),
             set_bkg_tile_xy(0, 8, 9, T_NUM_START + 2),
             set_bkg_tile_xy(0, 9, 9, T_EMPTY_CELL),
             set_bkg_tile_xy(0, 10, 9, T_TILE_R),
             set_bkg_tile_xy(0, 7, 10, T_TILE_BL),
             set_bkg_tile_xy(0, 8, 10, T_TILE_B),
             set_bkg_tile_xy(0, 9, 10, T_TILE_B),
             set_bkg_tile_xy(0, 10, 10, T_TILE_BR),
             set_bkg_tile_xy(1, 8, 8, 1),
             set_bkg_tile_xy(1, 9, 8, 2),
             set_bkg_tile_xy(1, 8, 9, 3),
             set_bkg_tile_xy(1, 9, 9, 5) >>)

\* What main draws for a new session (lines 576-591).
session_screen(b, mc, crow, ccol) ==
    Paint(blank_screen(T_BLANK, 0),
          draw_border \o draw_board(b) \o draw_hud(mc) \o draw_cursor(b, ccol, crow, 1))

(***************************************************************************)
(* The game loop of main (lines 596-660), on the game state g.             *)
(***************************************************************************)
\* The globals (and the observers calls, moves_made) as one record.
Game ==
    [board |-> board, empty_row |-> empty_row, empty_col |-> empty_col,
     cursor_row |-> cursor_row, cursor_col |-> cursor_col,
     move_count |-> move_count, game_won |-> game_won,
     input_cooldown |-> input_cooldown, vram |-> vram,
     calls |-> calls, moves_made |-> moves_made]

\* A call of try_move as main makes it; the call is logged in calls (target,
\* return value, game_won at the call) and a success counted in moves_made.
call_try_move(g, r, c) ==
    LET res == try_move(g, r, c)
    IN [g |-> [res.g EXCEPT !.calls = Append(g.calls,
                                  [r |-> r, c |-> c, ret |-> res.ret,
                                   won |-> g.game_won]),
                            !.moves_made = g.moves_made + res.ret],
        ret |-> res.ret]

\* Direction keys that wrap the cursor around the edges of the grid.
move_cursor_wrap(g, keys) ==
    IF keys \cap {"UP", "DOWN", "LEFT", "RIGHT"} # {}
    THEN LET erase == draw_cursor(g.board, g.cursor_col, g.cursor_row, 0)
             r1 == IF "UP" \in keys
                   THEN (g.cursor_row + GRID_SIZE - 1) % GRID_SIZE ELSE g.cursor_row
             r2 == IF "DOWN" \in keys THEN (r1 + 1) % GRID_SIZE ELSE r1
             c1 == IF "LEFT" \in keys
                   THEN (g.cursor_col + GRID_SIZE - 1) % GRID_SIZE ELSE g.cursor_col
             c2 == IF "RIGHT" \in keys THEN (c1 + 1) % GRID_SIZE ELSE c1
             v2 == Paint(g.vram, erase \o draw_cursor(g.board, c2, r2, 1))
         IN [g EXCEPT !.cursor_row = r2, !.cursor_col = c2, !.vram = v2,
                      !.input_cooldown = INPUT_DELAY]
    ELSE g

\* Lines 606-629: the direction keys.
move_cursor(g, keys) ==
    IF keys \cap {"UP", "DOWN", "LEFT", "RIGHT"} # {}
    THEN LET erase == draw_cursor(g.board, g.cursor_col, g.cursor_row, 0)
             r1 == IF "UP" \in keys /\ g.cursor_row > 0
                   THEN g.cursor_row - 1 ELSE g.cursor_row
             r2 == IF "DOWN" \in keys /\ r1 < GRID_SIZE - 1 THEN r1 + 1 ELSE r1
             c1 == IF "LEFT" \in keys /\ g.cursor_col > 0
                   THEN g.cursor_col - 1 ELSE g.cursor_col
             c2 == IF "RIGHT" \in keys /\ c1 < GRID_SIZE - 1 THEN c1 + 1 ELSE c1
             v2 == Paint(g.vram, erase \o draw_cursor(g.board, c2, r2, 1))
         IN [g EXCEPT !.cursor_row = r2, !.cursor_col = c2, !.vram = v2,
                      !.input_cooldown = INPUT_DELAY]
    ELSE g

\* An A button that starts the cooldown only when the move succeeded.
press_a_lazy(g, keys) ==
    IF "A" \in keys /\ g.board[g.cursor_row][g.cursor_col] # EMPTY_TILE
    THEN LET res == call_try_move(g, g.cursor_row, g.cursor_col)
         IN IF res.ret # 0
            THEN LET g2 == [res.g EXCEPT !.vram =
                              Paint(res.g.vram,
                                    draw_cursor(res.g.board, g.cursor_col,
                                                g.cursor_row, 1)),
                                         !.input_cooldown = INPUT_DELAY]
                 IN IF check_win(g2.board) # 0
                    THEN [g2 EXCEPT !.game_won = 1] ELSE g2
            ELSE res.g
    ELSE g

\* An A button that declares the win after any successful move.
press_a_hasty(g, keys) ==
    IF "A" \in keys
    THEN LET g1 ==
               IF g.board[g.cursor_row][g.cursor_col] # EMPTY_TILE
               THEN LET res == call_try_move(g, g.cursor_row, g.cursor_col)
                    IN IF res.ret # 0
                       THEN [res.g EXCEPT !.vram =
                               Paint(res.g.vram,
                                     draw_cursor(res.g.board, g.cursor_col,
                                                 g.cursor_row, 1)),
                                          !.game_won = 1]
                       ELSE res.g
               ELSE g
         IN [g1 EXCEPT !.input_cooldown = INPUT_DELAY]
    ELSE g

\* Lines 631-645: the A button.
press_a(g, keys) ==
    IF "A" \in keys
    THEN LET g1 ==
               IF g.board[g.cursor_row][g.cursor_col] # EMPTY_TILE
               THEN LET res == call_try_move(g, g.cursor_row, g.cursor_col)
                    IN IF res.ret # 0
                       THEN LET g2 == [res.g EXCEPT !.vram =
                                         Paint(res.g.vram,
                                               draw_cursor(res.g.board, g.cursor_col,
                                                           g.cursor_row, 1))]
                            IN IF check_win(g2.board) # 0
                               THEN [g2 EXCEPT !.game_won = 1] ELSE g2
                       ELSE res.g
               ELSE g
         IN [g1 EXCEPT !.input_cooldown = INPUT_DELAY]
    ELSE g

\* A SELECT button without the test of the cursor's cell.
press_select_unguarded(g, keys) ==
    IF "SELECT" \in keys
    THEN LET res == call_try_move(g, g.cursor_row, g.cursor_col)
             g1 == IF res.ret # 0
                   THEN LET g2 == [res.g EXCEPT !.vram =
                                     Paint(res.g.vram,
                                           draw_cursor(res.g.board, g.cursor_col,
                                                       g.cursor_row, 1))]
                        IN IF check_win(g2.board) # 0
                           THEN [g2 EXCEPT !.game_won = 1] ELSE g2
                   ELSE res.g
         IN [g1 EXCEPT !.input_cooldown = INPUT_DELAY]
    ELSE g

\* A SELECT button that does not redraw the cursor after a successful move.
press_select_nocursor(g, keys) ==
    IF "SELECT" \in keys
    THEN LET g1 ==
               IF g.board[g.cursor_row][g.cursor_col] # EMPTY_TILE
               THEN LET res == call_try_move(g, g.cursor_row, g.cursor_col)
                    IN IF res.ret # 0 /\ check_win(res.g.board) # 0
                       THEN [res.g EXCEPT !.game_won = 1] ELSE res.g
               ELSE g
         IN [g1 EXCEPT !.input_cooldown = INPUT_DELAY]
    ELSE g

\* Lines 647-659: the SELECT button.
press_select(g, keys) ==
    IF "SELECT" \in keys
    THEN LET g1 ==
               IF g.board[g.cursor_row][g.cursor_col] # EMPTY_TILE
               THEN LET res == call_try_move(g, g.cursor_row, g.cursor_col)
                    IN IF res.ret # 0
                       THEN LET g2 == [res.g EXCEPT !.vram =
                                         Paint(res.g.vram,
                                               draw_cursor(res.g.board, g.cursor_col,
                                                           g.cursor_row, 1))]
                            IN IF check_win(g2.board) # 0
                               THEN [g2 EXCEPT !.game_won = 1] ELSE g2
                       ELSE res.g
               ELSE g
         IN [g1 EXCEPT !.input_cooldown = INPUT_DELAY]
    ELSE g

\* One iteration of the game loop after its cooldown test, for the sample keys.
process_input(g, keys) == press_select(press_a(move_cursor(g, keys), keys), keys)

\* One iteration of the game loop (lines 597-660).
game_tick(g, keys) ==
    IF g.input_cooldown > 0
    THEN [g EXCEPT !.input_cooldown = g.input_cooldown - 1]
    ELSE process_input(g, keys)


(***************************************************************************)
(* The program: main (lines 541-674).                                      *)
(***************************************************************************)
\* The state when title_screen starts to wait: the globals are zero (static
\* storage), seed_counter was just set to 0, the title picture is drawn.
Init ==
    /\ pc = "title"
    /\ board = [r \in Rows |-> [c \in Cols |-> 0]]
    /\ empty_row = 0 /\ empty_col = 0
    /\ cursor_row = 0 /\ cursor_col = 0
    /\ move_count = 0 /\ game_won = 0 /\ input_cooldown = 0
    /\ seed_counter = 0
    /\ vram = title_picture
    /\ i = 0 /\ last_dir = NO_DIR /\ dir = 0 /\ win_i = 0
    /\ rand_seed = -1 /\ idle_ticks = 0
    /\ moves_made = 0 /\ calls = <<>> /\ ret = -1
    /\ quiet = INPUT_DELAY /\ acc = NO_DIR

\* Lines 527-531: one iteration of the wait for START; start is joypad() & J_START.
TitleWait(start) ==
    /\ pc = "title"
    /\ start \/ seed_counter + 1 < MaxWait
    /\ seed_counter' = (seed_counter + 1) % UINT16_MOD
    /\ idle_ticks' = idle_ticks + 1
    /\ pc' = IF start THEN "title_release" ELSE "title"
    /\ UNCHANGED <<board, empty_row, empty_col, cursor_row, cursor_col, move_count,
                   game_won, input_cooldown, vram, i, last_dir, dir, win_i,
                   rand_seed, moves_made, calls, ret, quiet, acc>>

\* Lines 534-536: the wait for the release of START.
TitleRelease(held) ==
    /\ pc = "title_release"
    /\ pc' = IF held THEN "title_release" ELSE "new"
    /\ UNCHANGED <<board, empty_row, empty_col, cursor_row, cursor_col, move_count,
                   game_won, input_cooldown, seed_counter, vram, i, last_dir, dir,
                   win_i, rand_seed, idle_ticks, moves_made, calls, ret, quiet, acc>>

\* A session start that leaves the cursor where the last session left it.
StartSessionStale ==
    /\ pc = "new"
    /\ move_count' = 0
    /\ game_won' = 0
    /\ input_cooldown' = 0
    /\ board' = init_board(board)
    /\ empty_row' = GRID_SIZE - 1
    /\ empty_col' = GRID_SIZE - 1
    /\ last_dir' = NO_DIR
    /\ rand_seed' = seed_counter
    /\ i' = 0
    /\ pc' = "shuffle"
    /\ moves_made' = 0 /\ calls' = <<>> /\ quiet' = INPUT_DELAY /\ acc' = NO_DIR
    /\ UNCHANGED <<cursor_row, cursor_col, seed_counter, vram, dir, win_i, idle_ticks, ret>>

\* Lines 563-573 and 391-394: the session's state is reset, the board is set
\* solved, shuffle_board seeds the random source and enters its loop.
StartSession ==
    /\ pc = "new"
    /\ move_count' = 0
    /\ game_won' = 0
    /\ cursor_row' = 0
    /\ cursor_col' = 0
    /\ input_cooldown' = 0
    /\ board' = init_board(board)
    /\ empty_row' = GRID_SIZE - 1
    /\ empty_col' = GRID_SIZE - 1
    /\ last_dir' = NO_DIR
    /\ rand_seed' = seed_counter
    /\ i' = 0
    /\ pc' = "shuffle"
    /\ moves_made' = 0 /\ calls' = <<>> /\ quiet' = INPUT_DELAY /\ acc' = NO_DIR
    /\ UNCHANGED <<seed_counter, vram, dir, win_i, idle_ticks, ret>>

\* The state shuffle_board works on.
ShuffleState ==
    [board |-> board, empty_row |-> empty_row, empty_col |-> empty_col,
     last_dir |-> last_dir]

\* Lines 396-436: one iteration of shuffle_board's loop with the draw d.  The
\* draws before the last ShuffleFree iterations are those the code skips.
\* acc observes the direction of the last accepted move.
ShuffleIter(d) ==
    /\ pc = "shuffle"
    /\ i < SHUFFLE_ITERS
    /\ \E t \in {shuffle_iter(ShuffleState, d)} :
          /\ i < SHUFFLE_ITERS - ShuffleFree => t = ShuffleState
          /\ board' = t.board
          /\ empty_row' = t.empty_row
          /\ empty_col' = t.empty_col
          /\ last_dir' = t.last_dir
          /\ acc' = IF t.board # board THEN d ELSE acc
    /\ dir' = d
    /\ i' = i + 1
    /\ idle_ticks' = 0
    /\ UNCHANGED <<pc, cursor_row, cursor_col, move_count, game_won, input_cooldown,
                   seed_counter, vram, win_i, rand_seed, moves_made, calls, ret,
                   quiet>>

\* Lines 576-593: shuffle_board has returned; the screen is cleared and drawn.
FinishSetup ==
    /\ pc = "shuffle"
    /\ i = SHUFFLE_ITERS
    /\ vram' = session_screen(board, move_count, cursor_row, cursor_col)
    /\ pc' = "play"
    /\ i' = 0 /\ last_dir' = NO_DIR /\ dir' = 0 /\ acc' = NO_DIR
    /\ UNCHANGED <<board, empty_row, empty_col, cursor_row, cursor_col, move_count,
                   game_won, input_cooldown, seed_counter, win_i, rand_seed,
                   idle_ticks, moves_made, calls, ret, quiet>>

\* Lines 596-660: one iteration of the game loop; keys is the set of buttons
\* held in the tick.  calls logs the tick's try_move calls; quiet counts the
\* ticks since the last one that read a sample holding a direction, A or SELECT.
GameTick(keys) ==
    /\ pc = "play"
    /\ \E g \in {game_tick([Game EXCEPT !.calls = <<>>], keys)} :
          /\ board' = g.board
          /\ empty_row' = g.empty_row
          /\ empty_col' = g.empty_col
          /\ cursor_row' = g.cursor_row
          /\ cursor_col' = g.cursor_col
          /\ move_count' = g.move_count
          /\ game_won' = g.game_won
          /\ input_cooldown' = g.input_cooldown
          /\ vram' = g.vram
          /\ calls' = g.calls
          /\ moves_made' = g.moves_made
          /\ quiet' = IF input_cooldown = 0
                         /\ keys \cap {"UP", "DOWN", "LEFT", "RIGHT", "A", "SELECT"} # {}
                      THEN 0
                      ELSE IF quiet < INPUT_DELAY THEN quiet + 1 ELSE quiet
          /\ pc' = IF g.game_won # 0 THEN "win" ELSE "play"
    /\ UNCHANGED <<seed_counter, i, last_dir, dir, win_i, rand_seed, idle_ticks,
                   ret, acc>>

\* A win_animation after whose last beat the next session starts at once.
WinBeatThenNew ==
    /\ pc = "win"
    /\ win_i < WIN_BEATS
    /\ vram' = Paint(vram, win_beat(board, win_i))
    /\ win_i' = IF win_i + 1 < WIN_BEATS THEN win_i + 1 ELSE 0
    /\ pc' = IF win_i + 1 < WIN_BEATS THEN "win" ELSE "new"
    /\ calls' = <<>>
    /\ UNCHANGED <<board, empty_row, empty_col, cursor_row, cursor_col, move_count,
                   game_won, input_cooldown, seed_counter, i, last_dir, dir,
                   rand_seed, idle_ticks, moves_made, ret, quiet, acc>>

\* Lines 443-466: one beat of win_animation (its 20 waits change nothing).
WinBeat ==
    /\ pc = "win"
    /\ win_i < WIN_BEATS
    /\ vram' = Paint(vram, win_beat(board, win_i))
    /\ win_i' = IF win_i + 1 < WIN_BEATS THEN win_i + 1 ELSE 0
    /\ pc' = IF win_i + 1 < WIN_BEATS THEN "win" ELSE "restart"
    /\ calls' = <<>>
    /\ UNCHANGED <<board, empty_row, empty_col, cursor_row, cursor_col, move_count,
                   game_won, input_cooldown, seed_counter, i, last_dir, dir,
                   rand_seed, idle_ticks, moves_made, ret, quiet, acc>>

\* Lines 666-669: one iteration of the wait for START after a win.
RestartWait(start) ==
    /\ pc = "restart"
    /\ start \/ idle_ticks + 1 < MaxWait
    /\ idle_ticks' = idle_ticks + 1
    /\ pc' = IF start THEN "restart_release" ELSE "restart"
    /\ UNCHANGED <<board, empty_row, empty_col, cursor_row, cursor_col, move_count,
                   game_won, input_cooldown, seed_counter, vram, i, last_dir, dir,
                   win_i, rand_seed, moves_made, calls, ret, quiet, acc>>

\* Lines 670-672: the wait for the release of START, then the next session.
RestartRelease(held) ==
    /\ pc = "restart_release"
    /\ pc' = IF held THEN "restart_release" ELSE "new"
    /\ UNCHANGED <<board, empty_row, empty_col, cursor_row, cursor_col, move_count,
                   game_won, input_cooldown, seed_counter, vram, i, last_dir, dir,
                   win_i, rand_seed, idle_ticks, moves_made, calls, ret, quiet, acc>>

\* The sets of at most n buttons.
HeldSets(n) == {k \in SUBSET Buttons : Cardinality(k) <= n}

\* The samples of the joypad explored in a tick of the game loop: none once
\* MaxMoves moves were made; while the cooldown runs (the code does not read
\* the joypad then) nothing held or everything held; otherwise at most
\* MaxHeld buttons.
CooldownSamples == {{}, Buttons}
InputSamples == HeldSets(MaxHeld)
PlayKeys ==
    IF moves_made >= MaxMoves THEN {{}}
    ELSE IF input_cooldown > 0 THEN CooldownSamples
    ELSE InputSamples

Next ==
    \/ \E start \in BOOLEAN : TitleWait(start)
    \/ \E held \in BOOLEAN : TitleRelease(held)
    \/ StartSession
    \/ \E d \in 0 .. 3 : ShuffleIter(d)
    \/ FinishSetup
    \/ \E keys \in PlayKeys : GameTick(keys)
    \/ WinBeat
    \/ \E start \in BOOLEAN : RestartWait(start)
    \/ \E held \in BOOLEAN : RestartRelease(held)

Spec == Init /\ [][Next]_vars

\* The program up to the return of shuffle_board in the first session.
ShuffleNext ==
    \/ \E start \in BOOLEAN : TitleWait(start)
    \/ \E held \in BOOLEAN : TitleRelease(held)
    \/ StartSession
    \/ \E d \in 0 .. 3 : ShuffleIter(d)

SpecShuffle == Init /\ [][ShuffleNext]_vars

(***************************************************************************)
(* try_move called on its own: from a session in play on the solved board  *)
(* (a shuffle whose draws were all skipped), any cell is targeted, as      *)
(* main's guard on the cursor's cell never does.                           *)
(***************************************************************************)
TryMoveInit ==
    /\ pc = "try_move"
    /\ board = init_board([r \in Rows |-> [c \in Cols |-> 0]])
    /\ empty_row = GRID_SIZE - 1 /\ empty_col = GRID_SIZE - 1
    /\ cursor_row = 0 /\ cursor_col = 0
    /\ move_count = 0 /\ game_won = 0 /\ input_cooldown = 0
    /\ seed_counter = 1
    /\ vram = session_screen(board, 0, 0, 0)
    /\ i = 0 /\ last_dir = NO_DIR /\ dir = 0 /\ win_i = 0
    /\ rand_seed = 1 /\ idle_ticks = 0
    /\ moves_made = 0 /\ calls = <<>> /\ ret = -1
    /\ quiet = INPUT_DELAY /\ acc = NO_DIR

\* try_move(r, c); calls holds this call, ret its return value.
CallTryMove(r, c) ==
    /\ pc = "try_move"
    /\ \E res \in {call_try_move([Game EXCEPT !.calls = <<>>], r, c)} :
          /\ res.ret # 0 => moves_made < MaxMoves
          /\ board' = res.g.board
          /\ empty_row' = res.g.empty_row
          /\ empty_col' = res.g.empty_col
          /\ move_count' = res.g.move_count
          /\ vram' = res.g.vram
          /\ calls' = res.g.calls
          /\ moves_made' = res.g.moves_made
          /\ ret' = res.ret
    /\ UNCHANGED <<pc, cursor_row, cursor_col, game_won, input_cooldown, seed_counter,
                   i, last_dir, dir, win_i, rand_seed, idle_ticks, quiet, acc>>

TryMoveNext == \E r \in Rows, c \in Cols : CallTryMove(r, c)

SpecTryMove == TryMoveInit /\ [][TryMoveNext]_vars

(***************************************************************************)
(* A long session.  The shuffle's accepted moves were three draws of 2     *)
(* (the empty cell went from (3,3) to (3,0)); the player then slid tile 9  *)
(* down into (3,0) and back up 32767 times, which never passes through the *)
(* solved board and redraws the same screen.  The session is in play with  *)
(* UINT16_MOD - 2 successful moves made and the cursor on (3,0).           *)
(***************************************************************************)
LongSessionShuffle ==
    shuffle_iter(shuffle_iter(shuffle_iter(
        [board |-> init_board([r \in Rows |-> [c \in Cols |-> 0]]),
         empty_row |-> GRID_SIZE - 1, empty_col |-> GRID_SIZE - 1,
         last_dir |-> NO_DIR], 2), 2), 2)

LongSessionMoves == UINT16_MOD - 2

LongSessionInit ==
    /\ pc = "play"
    /\ board = LongSessionShuffle.board
    /\ empty_row = LongSessionShuffle.empty_row
    /\ empty_col = LongSessionShuffle.empty_col
    /\ cursor_row = GRID_SIZE - 1 /\ cursor_col = 0
    /\ move_count = LongSessionMoves % UINT16_MOD
    /\ game_won = 0 /\ input_cooldown = 0
    /\ seed_counter = 1
    /\ vram = session_screen(board, move_count, cursor_row, cursor_col)
    /\ i = 0 /\ last_dir = NO_DIR /\ dir = 0 /\ win_i = 0
    /\ rand_seed = 1 /\ idle_ticks = 0
    /\ moves_made = LongSessionMoves /\ calls = <<>> /\ ret = -1
    /\ quiet = INPUT_DELAY /\ acc = NO_DIR

\* The samples explored in the long session: MaxMoves more moves.
LongSessionKeys ==
    IF moves_made >= LongSessionMoves + MaxMoves THEN {{}}
    ELSE IF input_cooldown > 0 THEN CooldownSamples
    ELSE InputSamples

LongSessionNext == \E keys \in LongSessionKeys : GameTick(keys)

SpecLongSession == LongSessionInit /\ [][LongSessionNext]_vars

(***************************************************************************)
(* check_win called on its own, on the solved board and on every board     *)
(* that differs from it by the exchange of two cells.                      *)
(***************************************************************************)
\* b with the contents of cells p and q exchanged.
SwapCells(b, p, q) ==
    [b EXCEPT ![p[1]][p[2]] = b[q[1]][q[2]], ![q[1]][q[2]] = b[p[1]][p[2]]]

CheckWinBoards ==
    {SwapCells(init_board([r \in Rows |-> [c \in Cols |-> 0]]), p, q) :
        p \in Rows \X Cols, q \in Rows \X Cols}

CheckWinInit ==
    /\ pc = "check_win"
    /\ board \in CheckWinBoards
    /\ \E p \in Rows \X Cols :
          board[p[1]][p[2]] = EMPTY_TILE /\ empty_row = p[1] /\ empty_col = p[2]
    /\ cursor_row = 0 /\ cursor_col = 0
    /\ move_count = 0 /\ game_won = 0 /\ input_cooldown = 0
    /\ seed_counter = 1
    /\ vram = session_screen(board, 0, 0, 0)
    /\ i = 0 /\ last_dir = NO_DIR /\ dir = 0 /\ win_i = 0
    /\ rand_seed = 1 /\ idle_ticks = 0
    /\ moves_made = 0 /\ calls = <<>> /\ ret = -1
    /\ quiet = INPUT_DELAY /\ acc = NO_DIR

\* check_win(); ret holds its return value.
CallCheckWin ==
    /\ pc = "check_win"
    /\ ret' = check_win(board)
    /\ UNCHANGED <<pc, board, empty_row, empty_col, cursor_row, cursor_col,
                   move_count, game_won, input_cooldown, seed_counter, vram, i,
                   last_dir, dir, win_i, rand_seed, idle_ticks, moves_made, calls,
                   quiet, acc>>

CheckWinNext == CallCheckWin

SpecCheckWin == CheckWinInit /\ [][CheckWinNext]_vars

(***************************************************************************)
(* draw_hud called on its own, as try_move calls it after move_count++,    *)
(* for every value of the 16-bit counter; the HUD still shows the value    *)
(* before the increment.                                                   *)
(***************************************************************************)
DrawHudScreen == session_screen(init_board([r \in Rows |-> [c \in Cols |-> 0]]), 0, 0, 0)

DrawHudInit ==
    /\ pc = "draw_hud"
    /\ board = init_board([r \in Rows |-> [c \in Cols |-> 0]])
    /\ empty_row = GRID_SIZE - 1 /\ empty_col = GRID_SIZE - 1
    /\ cursor_row = 0 /\ cursor_col = 0
    /\ move_count \in 0 .. (UINT16_MOD - 1)
    /\ game_won = 0 /\ input_cooldown = 0
    /\ seed_counter = 1
    /\ vram = Paint(DrawHudScreen, draw_hud((move_count + UINT16_MOD - 1) % UINT16_MOD))
    /\ i = 0 /\ last_dir = NO_DIR /\ dir = 0 /\ win_i = 0
    /\ rand_seed = 1 /\ idle_ticks = 0
    /\ moves_made = 0 /\ calls = <<>> /\ ret = -1
    /\ quiet = INPUT_DELAY /\ acc = NO_DIR

\* draw_hud(); ret = 0 marks that it has returned (it returns no value).
CallDrawHud ==
    /\ pc = "draw_hud"
    /\ ret = -1
    /\ vram' = Paint(vram, draw_hud(move_count))
    /\ ret' = 0
    /\ UNCHANGED <<pc, board, empty_row, empty_col, cursor_row, cursor_col,
                   move_count, game_won, input_cooldown, seed_counter, i,
                   last_dir, dir, win_i, rand_seed, idle_ticks, moves_made, calls,
                   quiet, acc>>

DrawHudNext == CallDrawHud

SpecDrawHud == DrawHudInit /\ [][DrawHudNext]_vars

(***************************************************************************)
(* draw_board called on its own, as main calls it for a new session (line  *)
(* 589) on the cleared screen with the border drawn: one draw_cell call    *)
(* per step, i is the loop position gy * 4 + gx.  The boards are the       *)
(* solved one and those with two cells exchanged, so that every identifier *)
(* is drawn in several cells.                                              *)
(***************************************************************************)
DrawBoardScreen == Paint(blank_screen(T_BLANK, 0), draw_border)

DrawBoardInit ==
    /\ pc = "draw_board"
    /\ board \in CheckWinBoards
    /\ \E p \in Rows \X Cols :
          board[p[1]][p[2]] = EMPTY_TILE /\ empty_row = p[1] /\ empty_col = p[2]
    /\ cursor_row = 0 /\ cursor_col = 0
    /\ move_count = 0 /\ game_won = 0 /\ input_cooldown = 0
    /\ seed_counter = 1
    /\ vram = DrawBoardScreen
    /\ i = 0 /\ last_dir = NO_DIR /\ dir = 0 /\ win_i = 0
    /\ rand_seed = 1 /\ idle_ticks = 0
    /\ moves_made = 0 /\ calls = <<>> /\ ret = -1
    /\ quiet = INPUT_DELAY /\ acc = NO_DIR

\* Lines 236-240: draw_cell(gx, gy) of the loop position i.
CallDrawCell ==
    /\ pc = "draw_board"
    /\ i < GRID_SIZE * GRID_SIZE
    /\ vram' = Paint(vram, draw_cell(board, i % GRID_SIZE, i \div GRID_SIZE))
    /\ i' = i + 1
    /\ UNCHANGED <<pc, board, empty_row, empty_col, cursor_row, cursor_col,
                   move_count, game_won, input_cooldown, seed_counter,
                   last_dir, dir, win_i, rand_seed, idle_ticks, moves_made, calls,
                   ret, quiet, acc>>

DrawBoardNext == CallDrawCell

SpecDrawBoard == DrawBoardInit /\ [][DrawBoardNext]_vars

(***************************************************************************)
(* Properties.                                                             *)
(***************************************************************************)
\* The solved arrangement: 1..15 in row-major order, the empty cell last.
SolvedBoard ==
    [r \in Rows |-> [c \in Cols |->
        IF r = GRID_SIZE - 1 /\ c = GRID_SIZE - 1 THEN EMPTY_TILE
        ELSE r * GRID_SIZE + c + 1]]

\* A session has been set up (initrand was called at least once).
Started == rand_seed # -1

\* b holds each identifier 0..15 exactly once.
IsPermutation(b) ==
    \A v \in 0 .. (TOTAL_TILES - 1) :
        Cardinality({rc \in Rows \X Cols : b[rc[1]][rc[2]] = v}) = 1

\* C1: in every state after init_board, after every iteration of the shuffle
\* loop (accepted or skipped) and after every try_move call (successful or
\* not), the board is a permutation of 0..15.
C1_BoardIsPermutation == Started => IsPermutation(board)

\* A session in play after a successful move and then a tick whose try_move
\* call failed, on a board that is not the solved one.
C1_Witness ==
    /\ pc = "play" /\ moves_made >= 1 /\ board # SolvedBoard
    /\ Len(calls) >= 1 /\ calls[1].ret = 0

Abs(n) == IF n < 0 THEN -n ELSE n

\* C2: try_move(r, c) returns 1 exactly when (r, c) is at Manhattan distance
\* 1 from the empty cell; on success the tile of (r, c) is in the old empty
\* cell, (r, c) holds 0, no other cell changed and the cached empty
\* coordinate is (r, c); on failure the board and the cached coordinate are
\* unchanged.
C2_TryMove ==
    [][pc = "try_move" =>
         LET r == calls'[1].r
             c == calls'[1].c
         IN /\ ret' \in {0, 1}
            /\ ret' = 1 <=> Abs(r - empty_row) + Abs(c - empty_col) = 1
            /\ ret' = 1 =>
                  /\ board'[empty_row][empty_col] = board[r][c]
                  /\ board'[r][c] = 0
                  /\ \A rr \in Rows, cc \in Cols :
                        (<<rr, cc>> # <<r, c>> /\ <<rr, cc>> # <<empty_row, empty_col>>)
                            => board'[rr][cc] = board[rr][cc]
                  /\ empty_row' = r /\ empty_col' = c
            /\ ret' = 0 => UNCHANGED <<board, empty_row, empty_col>>]_vars

\* After a successful slide, a call that targeted the empty cell itself and
\* failed.
C2_Witness ==
    /\ pc = "try_move" /\ moves_made >= 1 /\ ret = 0
    /\ calls[1].r = empty_row /\ calls[1].c = empty_col

\* C3: the move counter is, within a session, the number of successful
\* try_move calls made since the session started (so it grows by one with
\* every successful move and never decreases).
C3_CounterCountsMoves == Started => move_count = moves_made

\* C4: check_win returns 1 for the solved arrangement and 0 for every other
\* board, in particular for every board that differs from the solved one by
\* the exchange of two cells, and it changes no state.
C4_CheckWin ==
    [][pc = "check_win" =>
         /\ ret' = (IF board = SolvedBoard THEN 1 ELSE 0)
         /\ UNCHANGED <<board, empty_row, empty_col, cursor_row, cursor_col,
                        move_count, game_won, input_cooldown, seed_counter, vram>>]_vars

\* check_win has returned 0 on the board whose last two cells are exchanged.
C4_Witness ==
    /\ pc = "check_win" /\ ret = 0
    /\ board = SwapCells(SolvedBoard, <<GRID_SIZE - 1, GRID_SIZE - 2>>,
                                      <<GRID_SIZE - 1, GRID_SIZE - 1>>)

\* The cells of the grid, as <<row, column>>.
Cells == Rows \X Cols

\* The cell of b that holds the identifier 0.
EmptyCellOf(b) == CHOOSE p \in Cells : b[p[1]][p[2]] = EMPTY_TILE

\* The pairs of cells <<p, q>> with p before q in row-major order.
CellPairs ==
    {pq \in Cells \X Cells :
        pq[1][1] * GRID_SIZE + pq[1][2] < pq[2][1] * GRID_SIZE + pq[2][2]}

\* The number of pairs of cells, in row-major order, whose contents are in
\* descending order.
Inversions(b) ==
    Cardinality({pq \in CellPairs : b[pq[1][1]][pq[1][2]] > b[pq[2][1]][pq[2][2]]})

\* The solvability class of b: the parity of the permutation combined with
\* the distance of the empty cell from (3,3).
SolvabilityClass(b) ==
    LET e == EmptyCellOf(b)
    IN (Inversions(b) + (GRID_SIZE - 1 - e[1]) + (GRID_SIZE - 1 - e[2])) % 2

\* The solvability class of the solved board.
SolvedClass == SolvabilityClass(SolvedBoard)

\* b2 is b after the slide of a tile next to the empty cell into it.
IsSlide(b, b2) ==
    LET e == EmptyCellOf(b)
    IN \E q \in Cells :
          /\ Abs(q[1] - e[1]) + Abs(q[2] - e[2]) = 1
          /\ b2 = SwapCells(b, e, q)

\* C5: a session starts from the solved board; every board change made by
\* the shuffle, and by try_move afterwards, is the slide of a tile cardinally
\* adjacent to the empty cell into it and preserves the solvability class;
\* nothing else changes the board.  So every board of a session is in the
\* class of the solved board and is solved by the slides taken backwards.
C5_Solvable ==
    [][/\ pc = "new" =>
            board' = SolvedBoard /\ SolvabilityClass(board') = SolvedClass
       /\ (pc \in {"shuffle", "play", "try_move"} /\ board' # board) =>
            /\ IsSlide(board, board')
            /\ SolvabilityClass(board') = SolvabilityClass(board)
       /\ pc \notin {"new", "shuffle", "play", "try_move"} => board' = board]_vars

\* A session in play whose empty cell has left the last row and the last
\* column, by slides of the shuffle and at least one of the player.
C5_Witness ==
    /\ pc = "play" /\ moves_made >= 1
    /\ empty_row < GRID_SIZE - 1 /\ empty_col < GRID_SIZE - 1

\* Directions a and b of the shuffle are exact opposites (0 and 1 move the
\* empty cell up and down, 2 and 3 left and right).
Opposite(a, b) == {a, b} = {0, 1} \/ {a, b} = {2, 3}

\* C6: in shuffle_board an accepted move is never the opposite of the
\* accepted move before it, last_dir is the direction of the last accepted
\* move (not of the last draw), and an iteration that is rejected as an
\* opposite or would leave the grid changes neither the board, the cached
\* empty coordinate nor last_dir.
C6_NoOppositePair ==
    [][(pc = "shuffle" /\ i' = i + 1) =>
         /\ board' # board => ~Opposite(dir', acc)
         /\ board' = board => UNCHANGED <<empty_row, empty_col, last_dir>>
         /\ last_dir' = acc']_vars

\* The shuffle has ended on a draw of 1 (down) that was rejected, the last
\* accepted move being 0 (up), the only accepted one.
C6_Witness ==
    /\ pc = "shuffle" /\ i = SHUFFLE_ITERS /\ acc = 0 /\ dir = 1
    /\ empty_row = GRID_SIZE - 2 /\ empty_col = GRID_SIZE - 1

\* C7: after a tick that processed input (quiet = 0 then), each of the next
\* INPUT_DELAY ticks finds the cooldown running and only decrements it,
\* whatever is held; every tick that reads a direction, A or SELECT sets the
\* cooldown to INPUT_DELAY, also when the move fails or the cursor is
\* clamped; a tick that reads none of them sets nothing.
C7_Cooldown ==
    /\ []((pc = "play" /\ quiet < INPUT_DELAY) => input_cooldown = INPUT_DELAY - quiet)
    /\ [][pc = "play" =>
            /\ input_cooldown > 0 =>
                  /\ input_cooldown' = input_cooldown - 1
                  /\ calls' = <<>>
                  /\ UNCHANGED <<cursor_row, cursor_col, board, empty_row, empty_col,
                                 move_count, game_won, vram>>
            /\ (input_cooldown = 0 /\ quiet' = 0) => input_cooldown' = INPUT_DELAY
            /\ (input_cooldown = 0 /\ quiet' # 0) =>
                  /\ input_cooldown' = 0
                  /\ UNCHANGED <<cursor_row, cursor_col, board, empty_row, empty_col,
                                 move_count, game_won, vram>>]_vars

\* The tick just processed held A or SELECT on a tile that could not move,
\* before any move of the session, and the cooldown is set.
C7_Witness ==
    /\ pc = "play" /\ quiet = 0 /\ input_cooldown = INPUT_DELAY
    /\ moves_made = 0 /\ Len(calls) >= 1 /\ calls[1].ret = 0

\* C8: no try_move call is made while game_won is set (also in the tick that
\* sets it); with game_won set the game loop is left, and the board, the
\* cached empty coordinate, the move counter and game_won change only in the
\* reinitialization of the next session.
C8_WinOneWay ==
    /\ [](\A k \in 1 .. Len(calls) : calls[k].won = 0)
    /\ [](game_won # 0 => pc \in {"win", "restart", "restart_release", "new"})
    /\ [][game_won # 0 =>
            \/ UNCHANGED <<board, empty_row, empty_col, move_count, game_won>>
            \/ pc = "new" /\ pc' = "shuffle"]_vars

\* A won session waits for the release of START with the solved board.
C8_Witness ==
    /\ pc = "restart_release" /\ game_won = 1
    /\ board = SolvedBoard /\ moves_made >= 1

\* C9: from the first init_board on, after every shuffle iteration and every
\* try_move, (empty_row, empty_col) is in the grid and is the one cell that
\* holds 0 (so the cached coordinate never moves without the board's cells).
C9_EmptyCoordinate ==
    Started =>
        /\ empty_row \in Rows /\ empty_col \in Cols
        /\ \A p \in Cells :
              board[p[1]][p[2]] = EMPTY_TILE <=> p = <<empty_row, empty_col>>

\* A successful move was just made: the cursor's cell is the empty cell.
C9_Witness ==
    /\ pc = "play" /\ Len(calls) >= 1 /\ calls[Len(calls)].ret = 1
    /\ empty_row = cursor_row /\ empty_col = cursor_col

\* C10: the seed given to the random source for a session is the number of
\* display ticks of the idle wait that preceded that session.
C10_SeedFromPrecedingWait == (pc = "shuffle" /\ i = 0) => rand_seed = idle_ticks

\* C11 as stated: the win flash is played after the restart signal was
\* observed, that is, whenever win_animation runs, the wait for START that
\* follows this win has already taken ticks.
C11_FlashAfterRestartSignal == pc = "win" => idle_ticks > 0

\* C11, amended: the tick that sets game_won leaves the game loop for
\* win_animation; its WIN_BEATS beats are played with no wait for START
\* before them; then the program waits for START to be pressed, then for its
\* release, and then reinitializes the session.
C11_FlashThenWait ==
    /\ [](pc = "win" => game_won = 1 /\ idle_ticks = 0)
    /\ [][/\ (pc = "play" /\ game_won' # 0) => pc' = "win" /\ win_i' = 0
          /\ pc = "win" =>
               \/ pc' = "win" /\ win_i' = win_i + 1
               \/ pc' = "restart" /\ win_i = WIN_BEATS - 1
          /\ pc = "restart" =>
               pc' \in {"restart", "restart_release"} /\ idle_ticks' = idle_ticks + 1
          /\ pc = "restart_release" => pc' \in {"restart_release", "new"}
          /\ (pc = "new" /\ game_won # 0) => pc' = "shuffle" /\ game_won' = 0]_vars

\* A won session whose flash was played and whose START was pressed and
\* released: the reinitialization is next.
C11_Witness == pc = "new" /\ game_won = 1 /\ idle_ticks >= 1 /\ win_i = 0

\* The row of the HUD and the column of its first digit position.
HudRow == GRID_Y + GRID_SIZE * CELL_H + 2
HudCol == GRID_X + 1

\* The decimal digit a content tile shows, -1 if it is no digit glyph
\* (glyphs 1..9 are tiles 10..18, glyph 0 is tile 20).
DigitOf(t) ==
    IF t = T_NUM10_L + 1 THEN 0
    ELSE IF t >= T_NUM_START /\ t <= T_NUM_START + 8 THEN t - T_NUM_START + 1
    ELSE -1

\* The HUD of display v reads as the right-aligned 3-digit rendering of n:
\* ones always drawn, tens iff n >= 10, hundreds iff n >= 100, unused
\* positions blank, and the drawn digits are the decimal value n.
HudReads(v, n) ==
    LET h == v[0][HudRow][HudCol]
        t == v[0][HudRow][HudCol + 1]
        o == v[0][HudRow][HudCol + 2]
    IN /\ DigitOf(o) # -1
       /\ IF n >= 10 THEN DigitOf(t) # -1 ELSE t = T_BLANK
       /\ IF n >= 100 THEN DigitOf(h) # -1 ELSE h = T_BLANK
       /\ n = DigitOf(o) + (IF n >= 10 THEN 10 * DigitOf(t) ELSE 0)
                        + (IF n >= 100 THEN 100 * DigitOf(h) ELSE 0)

\* C12: for every value of the move counter, after draw_hud the HUD reads
\* as the right-aligned 3-digit decimal rendering of that value.
C12_HudReadsCounter == (pc = "draw_hud" /\ ret = 0) => HudReads(vram, move_count)

\* Tile (x, y) is in the 3x3 block of the cell (row, col).
InBlock(x, y, row, col) ==
    /\ x >= GRID_X + col * CELL_W /\ x < GRID_X + (col + 1) * CELL_W
    /\ y >= GRID_Y + row * CELL_H /\ y < GRID_Y + (row + 1) * CELL_H

\* Tile (x, y) is one of the four corners of the block of the cell (row, col).
IsCorner(x, y, row, col) ==
    /\ x \in {GRID_X + col * CELL_W, GRID_X + col * CELL_W + CELL_W - 1}
    /\ y \in {GRID_Y + row * CELL_H, GRID_Y + row * CELL_H + CELL_H - 1}

\* Displays v and v2 differ at most in the tiles <<bank, x, y>> that
\* satisfy Allowed (rows that are equal are not looked into).
DiffersOnlyIn(v, v2, Allowed(_, _, _)) ==
    \A bank \in 0 .. 1 : \A y \in 0 .. (SCREEN_H - 1) :
        \/ v2[bank][y] = v[bank][y]
        \/ \A x \in 0 .. (SCREEN_W - 1) :
              v2[bank][y][x] = v[bank][y][x] \/ Allowed(bank, x, y)

\* A try_move call of the tick just made succeeded.
MovedInTick(cs) == \E k \in 1 .. Len(cs) : cs[k].ret = 1

Directions == {"UP", "DOWN", "LEFT", "RIGHT"}

\* The coordinate a single step towards lower (back) or higher (forth)
\* values gives when the step is refused at the edge of the grid.
Clamped(x, back, forth) ==
    IF back /\ ~forth THEN (IF x > 0 THEN x - 1 ELSE x)
    ELSE IF forth /\ ~back THEN (IF x < GRID_SIZE - 1 THEN x + 1 ELSE x)
    ELSE x

\* What C14 says of the game tick that takes the state g to g2 on the sample
\* keys.
CursorRel(g, g2, keys) ==
    /\ Abs(g2.cursor_row - g.cursor_row) <= 1
    /\ Abs(g2.cursor_col - g.cursor_col) <= 1
    /\ (g.input_cooldown > 0 \/ keys \cap Directions = {}) =>
          g2.cursor_row = g.cursor_row /\ g2.cursor_col = g.cursor_col
    /\ (g.input_cooldown = 0 /\ ~({"UP", "DOWN"} \subseteq keys)) =>
          g2.cursor_row = Clamped(g.cursor_row, "UP" \in keys, "DOWN" \in keys)
    /\ (g.input_cooldown = 0 /\ ~({"LEFT", "RIGHT"} \subseteq keys)) =>
          g2.cursor_col = Clamped(g.cursor_col, "LEFT" \in keys, "RIGHT" \in keys)

\* C14: the cursor is always inside the grid; in every state of the game
\* loop and for every sample of keys, the tick changes each coordinate by at
\* most 1, changes none without a processed direction key (whatever try_move
\* does in the tick), and leaves a coordinate unchanged when the step would
\* leave the grid; outside of the game ticks only the session
\* reinitialization changes the cursor, to (0, 0).
C14_CursorInGrid ==
    /\ [](/\ cursor_row \in Rows /\ cursor_col \in Cols
          /\ pc = "play" =>
                \A keys \in PlayKeys :
                   CursorRel(Game, game_tick([Game EXCEPT !.calls = <<>>], keys), keys))
    /\ [][/\ pc = "play" =>
               /\ Abs(cursor_row' - cursor_row) <= 1
               /\ Abs(cursor_col' - cursor_col) <= 1
               /\ input_cooldown > 0 =>
                     cursor_row' = cursor_row /\ cursor_col' = cursor_col
          /\ pc # "play" =>
               \/ cursor_row' = cursor_row /\ cursor_col' = cursor_col
               \/ pc = "new" /\ cursor_row' = 0 /\ cursor_col' = 0]_vars

\* The cursor reached the far corner of the grid by direction keys, in a
\* tick that also called try_move.
C14_Witness ==
    /\ pc = "play" /\ cursor_row = GRID_SIZE - 1 /\ cursor_col = GRID_SIZE - 1
    /\ input_cooldown = INPUT_DELAY /\ calls # <<>>

\* shuffle_board's loop for the sequence of draws ds, from the state s.
RECURSIVE shuffle_run(_, _)
shuffle_run(s, ds) ==
    IF ds = <<>> THEN s ELSE shuffle_run(shuffle_iter(s, Head(ds)), Tail(ds))

\* The boards (with the empty cell's coordinate) that init_board followed by
\* shuffle_board produces, for the draws of the last ShuffleFree iterations.
FreshBoards ==
    {shuffle_run([board |-> SolvedBoard, empty_row |-> GRID_SIZE - 1,
                  empty_col |-> GRID_SIZE - 1, last_dir |-> NO_DIR], ds) :
       ds \in [1 .. ShuffleFree -> 0 .. 3]}

\* C15: every session starts fresh.  The reinitialization sets the counter,
\* the won flag, the cursor and the cooldown to 0 and the board to the solved
\* board whatever the last session left; the shuffle keeps the four scalars;
\* so the game loop is entered with move_count = 0, game_won = 0, the cursor
\* at (0, 0), input_cooldown = 0 and a board that init_board followed by
\* shuffle_board produces.
C15_FreshSession ==
    [][/\ pc = "new" =>
            /\ move_count' = 0 /\ game_won' = 0 /\ input_cooldown' = 0
            /\ cursor_row' = 0 /\ cursor_col' = 0
            /\ board' = SolvedBoard
            /\ empty_row' = GRID_SIZE - 1 /\ empty_col' = GRID_SIZE - 1
       /\ pc = "shuffle" =>
            UNCHANGED <<move_count, game_won, input_cooldown, cursor_row, cursor_col>>
       /\ (pc = "shuffle" /\ pc' = "play") =>
            /\ move_count' = 0 /\ game_won' = 0 /\ input_cooldown' = 0
            /\ cursor_row' = 0 /\ cursor_col' = 0
            /\ \E s \in FreshBoards :
                  /\ board' = s.board
                  /\ empty_row' = s.empty_row /\ empty_col' = s.empty_col]_vars

\* A later session has just been reinitialized: the screen still shows the
\* won session (its HUD reads a counter that is not 0) and the state is fresh.
C15_Witness ==
    /\ pc = "shuffle" /\ i = 0 /\ rand_seed # -1
    /\ ~HudReads(vram, 0) /\ (HudReads(vram, 1) \/ HudReads(vram, 2))
    /\ move_count = 0 /\ game_won = 0 /\ cursor_row = 0 /\ cursor_col = 0
    /\ board = SolvedBoard

\* C16: game_won is 0 or 1, and 1 only with the board solved; a game tick
\* sets it exactly when one of its try_move calls succeeded and left the
\* board solved (so never in a tick without a successful call); no other
\* step sets it.
C16_WonIffSolvedByMove ==
    /\ [](game_won \in {0, 1} /\ (game_won = 1 => board = SolvedBoard))
    /\ [][/\ pc = "play" =>
               /\ game_won = 0
               /\ game_won' = 1 <=> (MovedInTick(calls') /\ board' = SolvedBoard)
          /\ pc # "play" => game_won' = game_won \/ game_won' = 0]_vars

\* The tick just made slid the last tile home and set game_won.
C16_Witness ==
    /\ pc = "win" /\ win_i = 0 /\ game_won = 1 /\ MovedInTick(calls)
    /\ board = SolvedBoard /\ check_win(board) = 1

\* C17: the board shuffle_board leaves is never the solved one, so the game
\* loop is never in a state with the board solved and game_won = 0.
C17_ShuffleScrambles ==
    pc = "play" => ~(board = SolvedBoard /\ game_won = 0)

\* The value the last write of the list ws to the tile <<bank, x, y>> leaves
\* there (-1 when ws does not write the tile); k is the length still to scan.
RECURSIVE last_write(_, _, _, _, _)
last_write(ws, k, bank, x, y) ==
    IF k = 0 THEN -1
    ELSE IF ws[k][1] = bank /\ ws[k][2] = x /\ ws[k][3] = y THEN ws[k][4]
    ELSE last_write(ws, k - 1, bank, x, y)

\* What draw_cell paints on the content layer for the identifier id, as the
\* rows of the 3x3 block (drawn for a cell at the origin of the grid).
CellPicture ==
    LET pic == [id \in 0 .. (GRID_SIZE * GRID_SIZE - 1) |->
                  LET ws == draw_cell([r \in Rows |-> [c \in Cols |-> id]], 0, 0)
                  IN [dy \in 0 .. (CELL_H - 1) |-> [dx \in 0 .. (CELL_W - 1) |->
                        last_write(ws, Len(ws), 0, GRID_X + dx, GRID_Y + dy)]]]
    IN IF pic = pic THEN pic ELSE pic

\* The display v shows the cell (gy, gx) of the board b: on the content layer
\* what draw_cell paints for the cell's identifier, on the attribute layer the
\* identifier's band, but the cursor band on the four corners when the cursor
\* is on the cell.
ShowsCell(v, b, gx, gy, cursor_here) ==
    LET sx == GRID_X + gx * CELL_W
        sy == GRID_Y + gy * CELL_H
    IN \A dx \in 0 .. (CELL_W - 1) : \A dy \in 0 .. (CELL_H - 1) :
         /\ v[0][sy + dy][sx + dx] = CellPicture[b[gy][gx]][dy][dx]
         /\ v[1][sy + dy][sx + dx] =
               IF cursor_here /\ IsCorner(sx + dx, sy + dy, gy, gx) THEN PAL_GOLD
               ELSE get_tile_palette(b[gy][gx])

\* The display v is the projection of the board b, the counter mc and the
\* cursor (crow, ccol).
Projection(v, b, mc, crow, ccol) ==
    /\ \A gy \in Rows : \A gx \in Cols :
          ShowsCell(v, b, gx, gy, gy = crow /\ gx = ccol)
    /\ HudReads(v, mc)

C19_OneMovePerTick ==
    [][pc = "play" =>
         /\ Len(calls') <= 2
         /\ Cardinality({k \in 1 .. Len(calls') : calls'[k].ret = 1}) <= 1
         /\ \A k \in 1 .. Len(calls') : calls'[k].ret = 1 => k = Len(calls')
         /\ MovedInTick(calls') =>
               /\ board'[cursor_row'][cursor_col'] = EMPTY_TILE
               /\ board' # board
               /\ move_count' = (move_count + 1) % UINT16_MOD
         /\ ~MovedInTick(calls') => move_count' = move_count /\ board' = board]_vars

\* The second move of a session was the only try_move call of its tick.
C19_Witness ==
    /\ pc = "play" /\ Len(calls) = 1 /\ calls[1].ret = 1 /\ move_count = 2
    /\ board[cursor_row][cursor_col] = EMPTY_TILE

\* The four corner tiles of the block of the cell (row, col).
CornerTiles(row, col) ==
    {<<GRID_X + col * CELL_W + dx, GRID_Y + row * CELL_H + dy>> :
       dx \in {0, CELL_W - 1}, dy \in {0, CELL_H - 1}}

\* C20: a game tick that reads the keys and slides no tile draws with
\* draw_cursor only (erase at the old cell, show at the new one): the content
\* layer is unchanged; the attribute tiles that change are corner tiles of
\* the cursor's old or new cell, at most 8; when the cursor moved, the four
\* corners of the new cell carry the cursor band and those of the old cell
\* the band of the identifier in it, and the other attribute tiles of both
\* blocks are as before; the board, the empty coordinate, the counter and
\* the won flag are unchanged.
C20_CursorPatchesCorners ==
    [][(pc = "play" /\ input_cooldown = 0 /\ ~MovedInTick(calls')) =>
         LET old == CornerTiles(cursor_row, cursor_col)
             new == CornerTiles(cursor_row', cursor_col')
             Patched(bank, x, y) == bank = 1 /\ <<x, y>> \in old \cup new
         IN /\ vram'[0] = vram[0]
            /\ DiffersOnlyIn(vram, vram', Patched)
            /\ Cardinality(old \cup new) <= 8
            /\ <<cursor_row', cursor_col'>> # <<cursor_row, cursor_col>> =>
                  /\ \A t \in new : vram'[1][t[2]][t[1]] = PAL_GOLD
                  /\ \A t \in old : vram'[1][t[2]][t[1]] =
                                       get_tile_palette(board[cursor_row][cursor_col])
                  /\ vram' # vram
            /\ UNCHANGED <<board, empty_row, empty_col, move_count, game_won>>]_vars

\* The cursor was just moved off the cell (0, 0): its new cell shows the
\* cursor band on the corners only, and the corners of (0, 0) are restored.
C20_Witness ==
    /\ pc = "play" /\ calls = <<>> /\ input_cooldown = INPUT_DELAY
    /\ cursor_row = 1 /\ cursor_col = 1
    /\ \A t \in CornerTiles(1, 1) : vram[1][t[2]][t[1]] = PAL_GOLD
    /\ vram[1][GRID_Y + CELL_H + 1][GRID_X + CELL_W + 1] = get_tile_palette(board[1][1])
    /\ \A t \in CornerTiles(0, 0) : vram[1][t[2]][t[1]] = get_tile_palette(board[0][0])

\* The value range of an identifier: 0, 1..4, 5..8, 9..12, 13..15.
RangeOf(v) == IF v = 0 THEN 0 ELSE (v + 3) \div 4

\* The attribute block of the cell (gy, gx) in the display w carries one
\* band; the identifiers that get_tile_palette gives this band are those of
\* the range of v, and the band is not the cursor and win band.
BlockHasBandOf(w, gx, gy, v) ==
    LET p == w[1][GRID_Y + gy * CELL_H][GRID_X + gx * CELL_W]
    IN /\ \A dx \in 0 .. (CELL_W - 1) : \A dy \in 0 .. (CELL_H - 1) :
            w[1][GRID_Y + gy * CELL_H + dy][GRID_X + gx * CELL_W + dx] = p
       /\ p # PAL_GOLD
       /\ \A u \in 0 .. (GRID_SIZE * GRID_SIZE - 1) :
            (get_tile_palette(u) = p) <=> (RangeOf(u) = RangeOf(v))

\* The content block of the cell (gy, gx) in the display w, as its three rows.
BlockRows(w, gx, gy) ==
    [dy \in 0 .. (CELL_H - 1) |-> [dx \in 0 .. (CELL_W - 1) |->
        w[0][GRID_Y + gy * CELL_H + dy][GRID_X + gx * CELL_W + dx]]]

\* The rows top, middle, bottom as a block.
Rows3(top, mid, bot) ==
    [dy \in 0 .. (CELL_H - 1) |-> [dx \in 0 .. (CELL_W - 1) |->
        (IF dy = 0 THEN top ELSE IF dy = 1 THEN mid ELSE bot)[dx + 1]]]

\* The first glyph of the pair of the two-digit identifier v (the tens
\* digit); the second one (the ones digit) is the next tile.
PairBase(v) == T_NUM10_L + (v - 10) * 2

\* The block of an empty cell, and the block of a tile with the middle row mid.
FillerBlock == Rows3(<<T_EMPTY_CELL, T_EMPTY_CELL, T_EMPTY_CELL>>,
                     <<T_EMPTY_CELL, T_EMPTY_CELL, T_EMPTY_CELL>>,
                     <<T_EMPTY_CELL, T_EMPTY_CELL, T_EMPTY_CELL>>)
FramedBlock(mid) == Rows3(<<T_TILE_TL, T_TILE_T, T_TILE_TR>>, mid,
                          <<T_TILE_BL, T_TILE_B, T_TILE_BR>>)

\* What the draw_cell call of a step leaves, with the middle row Pair(v) for
\* the two-digit identifiers: the band of the identifier on the whole
\* attribute block; the filler in an empty cell; else the frame with the
\* glyph of v in the centre.
DrawCellPaints(Pair(_)) ==
    pc = "draw_board" =>
       LET gx == i % GRID_SIZE
           gy == i \div GRID_SIZE
           v == board[gy][gx]
       IN /\ BlockHasBandOf(vram', gx, gy, v)
          /\ BlockRows(vram', gx, gy) =
                IF v = 0 THEN FillerBlock
                ELSE IF v <= 9
                THEN FramedBlock(<<T_TILE_L, T_NUM_START + v - 1, T_TILE_R>>)
                ELSE FramedBlock(Pair(v))

\* The middle row of a two-digit tile as C21 states it, and as drawn.
PairAtLeft(v) == <<PairBase(v), PairBase(v) + 1, T_TILE_R>>
PairAtRight(v) == <<T_TILE_L, PairBase(v), PairBase(v) + 1>>

\* C21 as stated: draw_cell paints the whole attribute block with the band
\* of the identifier's range (five distinct bands, none the cursor band), an
\* empty cell with the filler in all 9 positions, a tile with the frame and
\* the centre glyph and, for 10..15, with the tens glyph in place of the left
\* border tile of the middle row.
C21_PairReplacesLeftBorder == [][DrawCellPaints(PairAtLeft)]_vars

\* C21, amended: as above, but for 10..15 the left border tile of the middle
\* row stays, the tens glyph is in the centre and the ones glyph replaces
\* the right border tile.
C21_PairReplacesRightBorder == [][DrawCellPaints(PairAtRight)]_vars

\* The whole solved board was drawn: the cell of 10 shows the left border,
\* the tens glyph and the ones glyph on the orange band, the empty cell the
\* filler.
C21_Witness ==
    /\ pc = "draw_board" /\ i = GRID_SIZE * GRID_SIZE /\ board = SolvedBoard
    /\ BlockRows(vram, 1, 2) = FramedBlock(<<T_TILE_L, T_NUM10_L, T_NUM10_L + 1>>)
    /\ vram[1][GRID_Y + 2 * CELL_H + 1][GRID_X + CELL_W + 1] = 3
    /\ BlockRows(vram, 3, 3) = FillerBlock

====
